---------------------------- MODULE Spec2Model ----------------------------
(***************************************************************************)
(* A model of hydromet_forecasting.forecasting.Forecaster: construction,   *)
(* the feature-date / feature-vector aggregation, train, predict and       *)
(* cross_validate.                                                         *)
(*                                                                         *)
(* Dates are day ordinals in a calendar of 365-day years (day 0 is 1 Jan   *)
(* of year 0).  A time series is a record [mode, ts] whose ts is a         *)
(* sequence of <<date, value>> pairs in index order; values are naturals   *)
(* and NaN marks a missing observation.                                    *)
(***************************************************************************)
EXTENDS Integers, Sequences, FiniteSets, TLC

VARIABLES
    heap,      \* estimator objects: object id -> fit state
    engines,   \* the Forecaster objects constructed so far, in order
    trainedOK, \* history: indices of the engines on which a train() call returned normally
    last,      \* the outcome of the last call
    folds,     \* the per-fold Forecaster objects built by the last cross_validate
    q,         \* aggregation harness: the Forecaster and target date under test
    r          \* aggregation harness: the result of the two aggregation methods

vars == <<heap, engines, trainedOK, last, folds, q, r>>

NaN == -1

(***************************************************************************)
(* FixedIndexTimeseries: the period calendar.  Monthly ("m") and decadal   *)
(* ("d": days 1-10, 11-20, 21-end of each month) schemes.                  *)
(***************************************************************************)
DaysPerYear == 365

CumDays == <<0, 31, 59, 90, 120, 151, 181, 212, 243, 273, 304, 334>>

Date(year, month, day) == year * DaysPerYear + CumDays[month] + (day - 1)

MonthOf(date) ==
    LET doy == date % DaysPerYear
    IN  CHOOSE m \in 1..12 : CumDays[m] <= doy /\ (m = 12 \/ doy < CumDays[m + 1])

DayOfMonth(date) == (date % DaysPerYear) - CumDays[MonthOf(date)] + 1

maxindex(mode) == IF mode = "m" THEN 12 ELSE 36

\* the number of the period containing date, counted from year 0
PeriodNumber(mode, date) ==
    LET year == date \div DaysPerYear
        m    == MonthOf(date)
        dom  == DayOfMonth(date)
        dec  == IF dom <= 10 THEN 0 ELSE IF dom <= 20 THEN 1 ELSE 2
    IN  IF mode = "m" THEN year * 12 + (m - 1)
        ELSE year * 36 + (m - 1) * 3 + dec

\* the first day of period number pn
FirstDayOfPeriod(mode, pn) ==
    LET year == pn \div maxindex(mode)
        idx  == pn % maxindex(mode)
    IN  IF mode = "m" THEN Date(year, idx + 1, 1)
        ELSE Date(year, (idx \div 3) + 1, 1 + 10 * (idx % 3))

shift_date_by_period(mode, date, shift) ==
    FirstDayOfPeriod(mode, PeriodNumber(mode, date) + shift)

convert_to_annual_index(mode, date) == (PeriodNumber(mode, date) % maxindex(mode)) + 1

(***************************************************************************)
(* pandas.Series helpers                                                   *)
(***************************************************************************)
RECURSIVE SumSeq(_)
SumSeq(s) == IF s = <<>> THEN 0 ELSE Head(s) + SumSeq(Tail(s))

RECURSIVE Concat(_)
Concat(ss) == IF ss = <<>> THEN <<>> ELSE Head(ss) \o Concat(Tail(ss))

\* body(v) for the value v of an expression that is computed once
With(v, body(_)) == CHOOSE res \in {body(x) : x \in {v}} : TRUE

\* a sequence given as a function, as the explicit tuple of its elements
List(s) == With(s, LAMBDA v : SubSeq(v, 1, Len(v)))

IndexOf(ts) == {ts[n][1] : n \in 1..Len(ts)}

\* Series.reindex(dates): the stored value at each date, NaN where the index has no such date
reindex(ts, dates) ==
    With(IndexOf(ts), LAMBDA index :
        List([j \in 1..Len(dates) |->
            IF dates[j] \in index
            THEN ts[CHOOSE n \in 1..Len(ts) : ts[n][1] = dates[j]][2]
            ELSE NaN]))

isnan_any(v) == \E j \in 1..Len(v) : v[j] = NaN

(***************************************************************************)
(* Forecaster.__init__                                                     *)
(***************************************************************************)
None == <<-1>>

Unfit == [fitted |-> FALSE, data |-> <<>>]

\* model: the id of the estimator object passed in; fresh: the first unused object id
Forecaster(model, y, X, laglength, lag, multimodel, decompose, fresh) ==
    LET mi == IF multimodel THEN maxindex(y.mode) ELSE 1
    IN  [ model         |-> IF multimodel THEN [i \in 1..mi |-> fresh + i - 1] ELSE <<model>>,
          multimodel    |-> multimodel,
          maxindex      |-> mi,
          decompose     |-> decompose,
          seasonal      |-> [i \in 1..maxindex(y.mode) |-> 0],
          y             |-> y,
          X             |-> X,
          X_type        |-> [i \in 1..Len(X) |-> X[i].mode],
          lag           |-> 0 - lag,
          laglength     |-> laglength,
          y_scaler      |-> [i \in 1..mi |-> Unfit],
          X_scaler      |-> [i \in 1..mi |-> Unfit],
          trainingdates |-> None ]

(***************************************************************************)
(* Forecaster._aggregate_featuredates and Forecaster._aggregate_features   *)
(***************************************************************************)
\* the issue date without the step back of line 237
issue_date_norollback(self, targetdate) ==
    shift_date_by_period(self.y.mode, targetdate, 0) - self.lag

\* lines 236-238: the date the forecast is issued on, the zero reference of the lookback
issue_date(self, targetdate) ==
    LET t1 == IF self.lag < 0 THEN shift_date_by_period(self.y.mode, targetdate, -1)
              ELSE targetdate
    IN  shift_date_by_period(self.y.mode, t1, 0) - self.lag

aggregate_featuredates(self, targetdate) ==
    With(issue_date(self, targetdate), LAMBDA t2 :
        List([i \in 1..Len(self.X) |->
            List([s \in 1..self.laglength[i] |->
                    shift_date_by_period(self.X[i].mode, t2, 0 - s)])]))

\* the feature vector with each feature's values oldest first
aggregate_features_reversed(self, featuredates, X) ==
    Concat([i \in 1..Len(X) |->
        LET v == reindex(X[i].ts, featuredates[i])
        IN  [j \in 1..Len(v) |-> v[Len(v) + 1 - j]]])

\* lines 264-274: per feature, in order, its values at its feature dates
aggregate_features(self, featuredates, X) ==
    Concat(List([i \in 1..Len(X) |-> reindex(X[i].ts, featuredates[i])]))

(***************************************************************************)
(* sklearn stand-ins.  A scaler or estimator is [fitted, data]: data is    *)
(* what it was last fitted on.  StandardScaler.fit_transform raises        *)
(* ValueError on an array with no sample or no feature (check_array), and  *)
(* fit() resets the scaler before it validates its input.                  *)
(***************************************************************************)
Fitted(data) == [fitted |-> TRUE, data |-> data]

\* an estimator object: fails is a property of the caller's estimator class, whether its
\* predict() raises for reasons of its own
Estimator(fails) == [fitted |-> FALSE, data |-> <<>>, fails |-> fails]

\* sklearn.base.clone: an unfitted estimator with the same parameters
clone(est) == Estimator(est.fails)

\* est.fit(X, y)
fit(est, data) == [est EXCEPT !.fitted = TRUE, !.data = data]

scaler_rejects(rows) == rows = <<>> \/ rows[1] = <<>>

\* stldecompose.decompose stand-in: the seasonal component of annual index i is i
decomp_seasonal(i) == i

data_by_index(y, i) == SelectSeq(y.ts, LAMBDA p : convert_to_annual_index(y.mode, p[1]) = i)

(***************************************************************************)
(* Forecaster.train                                                        *)
(***************************************************************************)
\* lines 294-299: the decomposed target and the seasonal offsets
train_decomposes(self) == self.decompose /\ Len(self.seasonal) > 1

train_target(self, y) ==
    IF train_decomposes(self)
    THEN [mode |-> y.mode,
          ts |-> List([n \in 1..Len(y.ts) |->
                    <<y.ts[n][1],
                      IF y.ts[n][2] = NaN THEN NaN
                      ELSE y.ts[n][2] - decomp_seasonal(convert_to_annual_index(y.mode, y.ts[n][1]))>>])]
    ELSE y

train_seasonal(self, y) ==
    IF train_decomposes(self)
    THEN List([i \in 1..Len(self.seasonal) |->
            IF data_by_index(y, i) = <<>> THEN NaN ELSE decomp_seasonal(i)])
    ELSE self.seasonal

\* lines 305-318: one candidate sample per entry of the target series
train_candidates(self, y) ==
    [n \in 1..Len(y.ts) |->
        LET index == y.ts[n][1]
        IN  [date     |-> index,
             annual   |-> IF self.multimodel THEN convert_to_annual_index(y.mode, index) ELSE 1,
             y_value  |-> y.ts[n][2],
             X_values |-> aggregate_features(self, aggregate_featuredates(self, index), self.X)]]

\* a sample is kept for its target value alone
train_keeps_target_only(c) == c.y_value # NaN

\* line 315
train_keeps(c) == c.y_value # NaN /\ ~isnan_any(c.X_values)

train_samples(self, y) == SelectSeq(List(train_candidates(self, y)), train_keeps)

\* X_list and y_list of lines 301-318: per partition, the rows collected
train_lists(samples, mi) ==
    List([i \in 1..mi |->
        With(SelectSeq(samples, LAMBDA c : c.annual = i), LAMBDA part :
            [X |-> List([n \in 1..Len(part) |-> part[n].X_values]),
             y |-> List([n \in 1..Len(part) |-> part[n].y_value])])])

\* lines 322-338 raise for the first partition whose scaler rejects its sample matrix
\* before the length test on line 326 is reached; 0 when every partition is fitted
first_failing(lists) ==
    With({i \in 1..Len(lists) : scaler_rejects(lists[i].X)}, LAMBDA bad :
        IF bad = {} THEN 0 ELSE CHOOSE i \in bad : \A k \in bad : i <= k)

\* train() called without a target series (y=None)
NoTarget == [mode |-> "None", ts |-> <<>>]

\* the whole of train(): the Forecaster and the heap afterwards, and how the call ended
train(self, hp, yarg) ==
    With(IF yarg = NoTarget THEN self.y ELSE yarg, LAMBDA y0 :
    With(train_target(self, y0), LAMBDA y :
    With(train_samples(self, y), LAMBDA samples :
    With(train_lists(samples, self.maxindex), LAMBDA lists :
    With(first_failing(lists), LAMBDA fail :
        LET done(i)  == fail = 0 \/ i < fail
            slots(o) == {i \in 1..self.maxindex : self.model[i] = o /\ done(i)}
        IN  [ self |-> [self EXCEPT
                          !.seasonal = train_seasonal(self, y0),
                          !.trainingdates = List([n \in 1..Len(samples) |-> samples[n].date]),
                          !.X_scaler = List([i \in 1..self.maxindex |->
                                           IF done(i) THEN Fitted(lists[i].X)
                                           ELSE IF i = fail THEN Unfit ELSE self.X_scaler[i]]),
                          !.y_scaler = List([i \in 1..self.maxindex |->
                                           IF done(i) THEN Fitted(lists[i].y)
                                           ELSE self.y_scaler[i]])],
              heap |-> List([o \in 1..Len(hp) |->
                           IF slots(o) = {} THEN hp[o]
                           ELSE LET i == CHOOSE i \in slots(o) : \A k \in slots(o) : k <= i
                                IN  fit(hp[o], <<lists[i].X, lists[i].y>>)]),
              counts |-> List([i \in 1..self.maxindex |-> Len(lists[i].y)]),
              kind |-> IF fail = 0 THEN "ok" ELSE "ValueError",
              partition |-> fail ])))))

(***************************************************************************)
(* Forecaster.predict                                                      *)
(***************************************************************************)
falsy(l) == l = None \/ l = <<>>

\* predict with the seasonal offset taken from the partition that supplies the scalers
predict_partition_offset(self, hp, targetdate, X) ==
    LET type         == [i \in 1..Len(X) |-> X[i].mode]
        featuredates == aggregate_featuredates(self, targetdate)
        annual_index == IF self.multimodel
                        THEN convert_to_annual_index(self.y.mode, targetdate) ELSE 1
        X_values     == aggregate_features(self, featuredates, X)
        fail(k)      == [kind |-> k, value |-> <<>>]
    IN  IF type # self.X_type THEN fail("ValueError")
        ELSE IF falsy(self.trainingdates) THEN fail("ModelError")
        ELSE IF isnan_any(X_values) THEN fail("InsufficientData")
        ELSE IF ~self.X_scaler[annual_index].fitted
                \/ ~hp[self.model[annual_index]].fitted
                \/ ~self.y_scaler[annual_index].fitted THEN fail("NotFittedError")
        ELSE IF hp[self.model[annual_index]].fails THEN fail("EstimatorError")
        ELSE [kind |-> "value",
              value |-> <<[ X_scaler |-> self.X_scaler[annual_index].data,
                            model    |-> hp[self.model[annual_index]].data,
                            y_scaler |-> self.y_scaler[annual_index].data,
                            x        |-> X_values,
                            seasonal |-> self.seasonal[annual_index] ]>>]

\* lines 357-377
predict(self, hp, targetdate, X) ==
    LET type         == [i \in 1..Len(X) |-> X[i].mode]
        featuredates == aggregate_featuredates(self, targetdate)
        annual_index == IF self.multimodel
                        THEN convert_to_annual_index(self.y.mode, targetdate) ELSE 1
        X_values     == aggregate_features(self, featuredates, X)
        fail(k)      == [kind |-> k, value |-> <<>>]
    IN  IF type # self.X_type THEN fail("ValueError")
        ELSE IF falsy(self.trainingdates) THEN fail("ModelError")
        ELSE IF isnan_any(X_values) THEN fail("InsufficientData")
        ELSE IF ~self.X_scaler[annual_index].fitted
                \/ ~hp[self.model[annual_index]].fitted
                \/ ~self.y_scaler[annual_index].fitted THEN fail("NotFittedError")
        ELSE IF hp[self.model[annual_index]].fails THEN fail("EstimatorError")
        ELSE [kind |-> "value",
              value |-> <<[ X_scaler |-> self.X_scaler[annual_index].data,
                            model    |-> hp[self.model[annual_index]].data,
                            y_scaler |-> self.y_scaler[annual_index].data,
                            x        |-> X_values,
                            seasonal |-> self.seasonal[
                                convert_to_annual_index(self.y.mode, targetdate)] ]>>]

(***************************************************************************)
(* Forecaster.cross_validate                                               *)
(***************************************************************************)
\* sklearn KFold(n_splits=k, shuffle=False) on n rows: the test rows of fold f
kfold_test(n, k, f) ==
    LET size(g) == (n \div k) + (IF g <= n % k THEN 1 ELSE 0)
        start   == (f - 1) * (n \div k) + (IF f - 1 <= n % k THEN f - 1 ELSE n % k)
    IN  (start + 1)..(start + size(f))

RECURSIVE sort_index(_)
sort_index(rows) ==
    IF rows = <<>> THEN <<>>
    ELSE With(CHOOSE n \in 1..Len(rows) : \A k \in 1..Len(rows) :
                      rows[n][1] < rows[k][1] \/ (rows[n][1] = rows[k][1] /\ n <= k),
              LAMBDA m : <<rows[m]>> \o sort_index(SubSeq(rows, 1, m - 1)
                                                      \o SubSeq(rows, m + 1, Len(rows))))

\* lines 395-402
cv_groups(self) ==
    IF self.multimodel THEN List([i \in 1..self.maxindex |-> data_by_index(self.y, i)])
    ELSE <<self.y.ts>>

\* the fold count as documented: 'auto' is the least group size capped at 10, and a
\* count below 2 is a lack of data
cv_resolve_documented(y, karg, python) ==
    LET sizes == {Len(y[g]) : g \in 1..Len(y)}
        least == CHOOSE m \in sizes : \A x \in sizes : m <= x
        k     == IF least < 10 THEN least ELSE 10
    IN  IF karg.kind = "auto"
        THEN IF k = 1 THEN [kind |-> "InsufficientData", k |-> 0] ELSE [kind |-> "ok", k |-> k]
        ELSE IF karg.kind # "int" THEN [kind |-> "ValueError", k |-> 0]
        ELSE IF karg.n < 2 \/ \E x \in sizes : x < karg.n
             THEN [kind |-> "InsufficientData", k |-> 0]
        ELSE [kind |-> "ok", k |-> karg.n]

\* lines 405-419: the fold count, or the exception raised while resolving it.
\* min(groupsize, 10) compares a list with an int: Python 2 orders numbers before
\* lists (the result is 10), Python 3 raises TypeError.
cv_resolve(y, karg, python) ==
    LET sizes == {Len(y[g]) : g \in 1..Len(y)}
    IN  IF karg.kind = "auto"
        THEN IF python = 3 THEN [kind |-> "TypeError", k |-> 0] ELSE [kind |-> "ok", k |-> 10]
        ELSE IF karg.n = 1 \/ karg.kind # "int" THEN [kind |-> "ValueError", k |-> 0]
        ELSE IF \E x \in sizes : x < karg.n THEN [kind |-> "InsufficientData", k |-> 0]
        ELSE [kind |-> "ok", k |-> karg.n]

\* lines 426-437: KFold rejects n_splits <= 1, and split() more folds than rows
cv_split_fails(y, k) ==
    k <= 1 \/ \E g \in 1..Len(y) : Len(y[g]) > 1 /\ k > Len(y[g])

\* the rows of fold f when the training rows are every row of the group
cv_rows_no_holdout(y, k, f, test) ==
    Concat(List([g \in 1..Len(y) |->
        IF Len(y[g]) > 1
        THEN With(kfold_test(Len(y[g]), k, f), LAMBDA held :
                 SelectSeq([n \in 1..Len(y[g]) |->
                              IF test => n \in held THEN y[g][n] ELSE <<>>],
                           LAMBDA p : p # <<>>))
        ELSE <<>>]))

\* the rows of fold f: test = TRUE the held-out rows, FALSE the training rows
cv_rows(y, k, f, test) ==
    Concat(List([g \in 1..Len(y) |->
        IF Len(y[g]) > 1
        THEN With(kfold_test(Len(y[g]), k, f), LAMBDA held :
                 SelectSeq([n \in 1..Len(y[g]) |->
                              IF (n \in held) = test THEN y[g][n] ELSE <<>>],
                           LAMBDA p : p # <<>>))
        ELSE <<>>]))

\* lines 445-446: the Forecaster of a fold around clone(self._model[0]), object fresh
cv_fold_engine(self, trainingset, fresh) ==
    Forecaster(fresh, [mode |-> self.y.mode, ts |-> trainingset], self.X,
               self.laglength, self.lag, self.multimodel, self.decompose, fresh + 1)

\* lines 442-453 for fold f: the trained fold engine and the predictions it yields
cv_fold(self, hp, y, k, f) ==
    LET per   == 1 + (IF self.multimodel THEN maxindex(self.y.mode) ELSE 0)
        fresh == Len(hp) + (f - 1) * per + 1
        local == List([o \in 1..(Len(hp) + k * per) |-> IF o <= Len(hp) THEN hp[o]
                                                         ELSE clone(hp[self.model[1]])])
    IN  With(train(cv_fold_engine(self, cv_rows(y, k, f, FALSE), fresh), local, NoTarget),
             LAMBDA tr :
        With(cv_rows(y, k, f, TRUE), LAMBDA test :
        With(List([n \in 1..Len(test) |-> predict(tr.self, tr.heap, test[n][1], self.X)]),
             LAMBDA out :
            [ fc     |-> tr.self,
              est    |-> List([i \in 1..tr.self.maxindex |-> tr.heap[tr.self.model[i]]]),
              kind   |-> tr.kind,
              test   |-> List([n \in 1..Len(test) |-> test[n][1]]),
              failed |-> List([n \in 1..Len(test) |-> out[n].kind]),
              predictions |-> SelectSeq([n \in 1..Len(test) |->
                                  IF out[n].kind = "value" THEN <<test[n][1], out[n].value>>
                                  ELSE <<>>], LAMBDA p : p # <<>>) ])))

\* lines 421-456: the folds run for fold count k, up to the first whose train() raises
cv_folds(self, hp, y, k) ==
    IF cv_split_fails(y, k)
    THEN [kind |-> "ValueError", k_fold |-> k, folds |-> <<>>, predicted |-> <<>>]
    ELSE With(List([f \in 1..k |-> cv_fold(self, hp, y, k, f)]), LAMBDA fold :
         With({f \in 1..k : fold[f].kind # "ok"}, LAMBDA bad :
            LET stop == IF bad = {} THEN k ELSE CHOOSE f \in bad : \A g \in bad : f <= g
            IN  [ kind   |-> fold[stop].kind,
                  k_fold |-> k,
                  folds  |-> SubSeq(fold, 1, stop),
                  predicted |-> IF bad # {} THEN <<>>
                                ELSE sort_index(Concat(List([f \in 1..k |-> fold[f].predictions]))) ]))

\* cross_validate with a guard on the trained state in front
cross_validate_trained_only(self, hp, karg, python) ==
    With(cv_groups(self), LAMBDA y :
    With(cv_resolve(y, karg, python), LAMBDA res :
        IF falsy(self.trainingdates)
        THEN [kind |-> "ModelError", k_fold |-> 0, folds |-> <<>>, predicted |-> <<>>]
        ELSE IF res.kind # "ok"
        THEN [kind |-> res.kind, k_fold |-> res.k, folds |-> <<>>, predicted |-> <<>>]
        ELSE cv_folds(self, hp, y, res.k)))

\* the whole of cross_validate(k_fold)
cross_validate(self, hp, karg, python) ==
    With(cv_groups(self), LAMBDA y :
    With(cv_resolve(y, karg, python), LAMBDA res :
        IF res.kind # "ok"
        THEN [kind |-> res.kind, k_fold |-> res.k, folds |-> <<>>, predicted |-> <<>>]
        ELSE cv_folds(self, hp, y, res.k)))

(***************************************************************************)
(* The aggregation harness: one Forecaster is constructed from bounded     *)
(* inputs and its two aggregation methods are applied to one target date.  *)
(***************************************************************************)
SpanDays == 6
MaxLag == 11
MaxLagLength == 2

\* decadal and monthly feature series around October of year 1
DecadalDates == <<Date(1, 8, 21), Date(1, 9, 1), Date(1, 9, 11), Date(1, 9, 21),
                  Date(1, 10, 1), Date(1, 10, 11)>>
MonthlyDates == <<Date(1, 7, 1), Date(1, 8, 1), Date(1, 9, 1), Date(1, 10, 1)>>

Fd     == [mode |-> "d", ts |-> [n \in 1..6 |-> <<DecadalDates[n], 10 + n>>]]
FdHole == [mode |-> "d", ts |-> SelectSeq(Fd.ts, LAMBDA p : p[1] # Date(1, 9, 21))]
FdNaN  == [mode |-> "d", ts |-> [n \in 1..6 |->
                <<DecadalDates[n], IF DecadalDates[n] = Date(1, 10, 1) THEN NaN ELSE 20 + n>>]]
Fm     == [mode |-> "m", ts |-> [n \in 1..4 |-> <<MonthlyDates[n], 30 + n>>]]

HarnessX == {<<Fd>>, <<Fm>>, <<FdHole, Fm>>, <<Fm, FdNaN>>}
HarnessY == {[mode |-> "d", ts |-> <<>>], [mode |-> "m", ts |-> <<>>]}
HarnessDates == {Date(1, 10, 9) + n : n \in 0..(SpanDays - 1)}

NoResult == [issue |-> 0, dates |-> <<>>, values |-> <<>>, done |-> FALSE]

EngineIdle ==
    /\ heap = <<>>
    /\ engines = <<>>
    /\ trainedOK = {}
    /\ last = [op |-> "none"]
    /\ folds = <<>>

InitAgg ==
    /\ EngineIdle
    /\ r = NoResult
    /\ \E y \in HarnessY, X \in HarnessX, lag \in (0 - MaxLag)..MaxLag,
          d \in HarnessDates :
          \E ll \in [1..Len(X) -> 0..MaxLagLength] :
             q = [self |-> Forecaster(0, y, X, ll, lag, FALSE, FALSE, 1),
                  lagarg |-> lag, targetdate |-> d]

Aggregate ==
    /\ ~r.done
    /\ \E fd \in {aggregate_featuredates(q.self, q.targetdate)} :
           r' = [issue |-> issue_date(q.self, q.targetdate), dates |-> fd,
                 values |-> aggregate_features(q.self, fd, q.self.X), done |-> TRUE]
    /\ UNCHANGED <<heap, engines, trainedOK, last, folds, q>>

NextAgg == Aggregate

SpecAgg == InitAgg /\ [][NextAgg]_vars

(***************************************************************************)
(* The program: Forecaster objects are built from one caller-supplied      *)
(* estimator template (heap object 1) over monthly data, then trained and  *)
(* asked for predictions.  Init is the state after construction.           *)
(***************************************************************************)
Template == 1

\* a monthly series over the months from..to (month 12 is Jan of year 1)
Monthly(from, to, absent, nans, base) ==
    [mode |-> "m",
     ts |-> SelectSeq([k \in 1..(to - from + 1) |->
                          LET n == from + k - 1
                          IN  <<FirstDayOfPeriod("m", n), IF n \in nans THEN NaN ELSE base + n>>],
                      LAMBDA p : PeriodNumber("m", p[1]) \notin absent)]

Q13    == Monthly(12, 24, {}, {}, 100)
Q13nan == Monthly(12, 24, {}, {17}, 100)
Q25    == Monthly(12, 36, {}, {}, 100)
P      == Monthly(9, 36, {}, {}, 200)
Phole  == Monthly(9, 36, {15, 16}, {}, 200)
Pd     == [mode |-> "d", ts |-> Fd.ts]

Lags == {-4, 0, 3}
PredictDates == {Date(1, 3, 15), Date(1, 6, 1)}
PredictX == {<<P>>, <<Phole>>, <<Pd>>, <<P, P>>}

Args(models, targets, features, laglengths, lags, decomposes) ==
    [model : models, y : targets, X : features, laglength : laglengths, lag : lags,
     multimodel : BOOLEAN, decompose : decomposes]

\* the Forecaster objects built, in order, from the argument records args
RECURSIVE Build(_, _)
Build(args, fresh) ==
    IF args = <<>> THEN <<>>
    ELSE LET a    == Head(args)
             self == Forecaster(Template, a.y, a.X, a.laglength, a.lag, a.multimodel,
                                a.decompose, fresh)
         IN  <<self>> \o Build(Tail(args), IF a.multimodel THEN fresh + self.maxindex ELSE fresh)

Allocated(es) ==
    UNION {{es[e].model[i] : i \in 1..es[e].maxindex} : e \in 1..Len(es)} \cup {Template}

Constructed(args) ==
    /\ engines = Build(args, Template + 1)
    /\ heap = [o \in 1..Cardinality(Allocated(Build(args, Template + 1))) |->
                  IF o = Template THEN Estimator(args[1].model)
                  ELSE clone(Estimator(args[1].model))]
    /\ trainedOK = {}
    /\ last = [op |-> "none"]
    /\ folds = <<>>
    /\ q = [self |-> Forecaster(0, Q13, <<P>>, <<1>>, 0, FALSE, FALSE, 1),
            lagarg |-> 0, targetdate |-> Date(1, 10, 11)]
    /\ r = NoResult

Init ==
    \E a \in Args({FALSE}, {Q13, Q13nan}, {<<P>>, <<Phole>>}, {<<1>>, <<2>>}, Lags, BOOLEAN) :
        Constructed(<<a>>)

Train ==
    \E e \in 1..Len(engines) :
        \E res \in {train(engines[e], heap, NoTarget)} :
            /\ engines' = [engines EXCEPT ![e] = res.self]
            /\ heap' = res.heap
            /\ trainedOK' = IF res.kind = "ok" THEN trainedOK \cup {e} ELSE trainedOK
            /\ last' = [op |-> "train", e |-> e, kind |-> res.kind,
                        partition |-> res.partition, counts |-> res.counts]
            /\ UNCHANGED <<folds, q, r>>

Predict ==
    \E e \in 1..Len(engines), targetdate \in PredictDates, X \in PredictX :
        \E res \in {predict(engines[e], heap, targetdate, X)} :
            /\ last' = [op |-> "predict", e |-> e, targetdate |-> targetdate, X |-> X,
                        kind |-> res.kind, value |-> res.value]
            /\ UNCHANGED <<heap, engines, trainedOK, folds, q, r>>

Next == Train \/ Predict

Spec == Init /\ [][Next]_vars

(***************************************************************************)
(* Two Forecaster objects built from the same template.                    *)
(***************************************************************************)
InitPair ==
    \E a, b \in Args({FALSE}, {Q13, Q13nan}, {<<P>>}, {<<1>>}, {0}, {FALSE}) : Constructed(<<a, b>>)

SpecPair == InitPair /\ [][Next]_vars

(***************************************************************************)
(* One Forecaster object that is trained and cross-validated.              *)
(***************************************************************************)
MaxK == 3

KArgs == {[kind |-> "auto", n |-> 0], [kind |-> "other", n |-> 0]}
            \cup {[kind |-> "int", n |-> n] : n \in (0 - 1)..MaxK}

\* the interpreter decides the outcome of 'auto' only
PythonVersions(karg) == IF karg.kind = "auto" THEN {2, 3} ELSE {3}

\* lags of less than and of more than one period
LagsCV == {-40, 0, 3}

\* every lag and decompose flag over complete features and a sound estimator; with lag 0
\* also features with absent months and an estimator whose predict() raises
ArgsCV ==
    Args({FALSE}, {Q13, Q25}, {<<P>>}, {<<1>>}, LagsCV, BOOLEAN)
        \cup Args(BOOLEAN, {Q13, Q25}, {<<P>>, <<Phole>>}, {<<1>>}, {0}, {FALSE})

InitCV == \E a \in ArgsCV : Constructed(<<a>>)

CrossValidate ==
    \E e \in 1..Len(engines), karg \in KArgs : \E python \in PythonVersions(karg) :
        \E res \in {cross_validate(engines[e], heap, karg, python)} :
            /\ last' = [op |-> "cross_validate", e |-> e, k_fold |-> karg,
                        kind |-> res.kind, k |-> res.k_fold, predicted |-> res.predicted]
            /\ folds' = res.folds
            /\ UNCHANGED <<heap, engines, trainedOK, q, r>>

NextCV == Train \/ CrossValidate

SpecCV == InitCV /\ [][NextCV]_vars

(***************************************************************************)
(* Calendar notions used to state the properties, defined from the days of *)
(* the month alone.                                                        *)
(***************************************************************************)
IsAnchor(mode, d) == DayOfMonth(d) = 1 \/ (mode = "d" /\ DayOfMonth(d) \in {11, 21})

\* first and last day of the period containing d
PeriodStart(mode, d) ==
    CHOOSE a \in (d - 31)..d : IsAnchor(mode, a) /\ \A b \in (a + 1)..d : ~IsAnchor(mode, b)

PeriodEnd(mode, d) ==
    CHOOSE e \in d..(d + 31) : IsAnchor(mode, e + 1) /\ \A b \in (d + 1)..e : ~IsAnchor(mode, b)

\* first day of the n-th period before the period containing d
RECURSIVE NthBefore(_, _, _)
NthBefore(mode, d, n) ==
    IF n = 0 THEN PeriodStart(mode, d) ELSE NthBefore(mode, PeriodStart(mode, d) - 1, n - 1)

\* the issue date as the constructor's documentation defines it from the lag argument
DocIssueDate(mode, targetdate, lag) ==
    IF lag > 0 THEN PeriodStart(mode, PeriodStart(mode, targetdate) - 1) + lag
    ELSE PeriodStart(mode, targetdate) + lag

\* the stored observation of series x at date d: NaN when x has none there
Lookup(x, d) ==
    IF \E n \in 1..Len(x.ts) : x.ts[n][1] = d
    THEN x.ts[CHOOSE n \in 1..Len(x.ts) : x.ts[n][1] = d][2]
    ELSE NaN

HasEntry(x, d) == \E n \in 1..Len(x.ts) : x.ts[n][1] = d /\ x.ts[n][2] # NaN

Offset(laglength, i) == SumSeq(SubSeq(laglength, 1, i - 1))

\* C3: the feature vector has sum(laglength) slots in feature-major, most-recent-first
\* order: slot Offset(i) + j holds the observation of feature i at featuredates[i][j],
\* and NaN exactly when feature i has no observation at that date (the date is not in
\* its index, or the index holds the missing-value marker there); nothing is raised and
\* no other slot depends on that date.
C3_FeatureVectorLayout ==
    r.done =>
        LET ll == q.self.laglength
            X  == q.self.X
        IN  /\ Len(r.values) = SumSeq(ll)
            /\ \A i \in 1..Len(X) : \A j \in 1..ll[i] :
                  LET slot == r.values[Offset(ll, i) + j]
                      d    == r.dates[i][j]
                  IN  /\ slot = Lookup(X[i], d)
                      /\ (slot = NaN) <=> ~HasEntry(X[i], d)

C3_Witness ==
    /\ r.done
    /\ q.self.X = <<FdHole, Fm>>
    /\ q.self.laglength = <<2, 1>>
    /\ Date(1, 9, 21) \in {r.dates[1][j] : j \in 1..2}
    /\ \E k \in 1..3 : r.values[k] = NaN
    /\ \E k \in 1..3 : r.values[k] # NaN

DocExample(lag, ll, issue, dates) ==
    (q.lagarg = lag /\ q.self.laglength = <<ll>>) => (r.issue = issue /\ r.dates = <<dates>>)

\* C4: for feature i, _aggregate_featuredates returns laglength[i] dates: the first days
\* of the 1st, 2nd, ..., L-th period of feature i's calendar before the period that
\* contains the issue date, most recent first, so each of these periods ends before the
\* issue date; the constructor's documented examples for the decade 11-20 Oct hold.
C4_FeatureDates ==
    r.done =>
        LET self  == q.self
            issue == DocIssueDate(self.y.mode, q.targetdate, q.lagarg)
        IN  /\ r.issue = issue
            /\ Len(r.dates) = Len(self.X)
            /\ \A i \in 1..Len(self.X) :
                  /\ Len(r.dates[i]) = self.laglength[i]
                  /\ \A j \in 1..self.laglength[i] :
                        /\ r.dates[i][j] = NthBefore(self.X[i].mode, issue, j)
                        /\ PeriodEnd(self.X[i].mode, r.dates[i][j]) < issue
            /\ (self.y.mode = "d" /\ self.X = <<Fd>>
                    /\ q.targetdate \in Date(1, 10, 11)..Date(1, 10, 20)) =>
                  /\ DocExample(0, 1, Date(1, 10, 11), <<Date(1, 10, 1)>>)
                  /\ DocExample(0, 2, Date(1, 10, 11), <<Date(1, 10, 1), Date(1, 9, 21)>>)
                  /\ DocExample(-4, 2, Date(1, 10, 7), <<Date(1, 9, 21), Date(1, 9, 11)>>)
                  /\ DocExample(3, 1, Date(1, 10, 4), <<Date(1, 9, 21)>>)

C4_Witness ==
    /\ r.done
    /\ q.self.y.mode = "d"
    /\ q.self.X = <<Fd>>
    /\ q.targetdate = Date(1, 10, 12)
    /\ q.lagarg = 3
    /\ q.self.laglength = <<1>>
    /\ r.dates = <<<<Date(1, 9, 21)>>>>

(***************************************************************************)
(* Properties of train and predict                                         *)
(***************************************************************************)
ModesMatch(self, X) == [i \in 1..Len(X) |-> X[i].mode] = self.X_type

FeaturesHaveNaN(self, targetdate, X) ==
    isnan_any(aggregate_features(self, aggregate_featuredates(self, targetdate), X))

\* C1: predict returns a value only on an engine on which some earlier train() call
\* completed successfully; on every other engine a predict call with matching feature
\* calendars reports ModelError.
C1_PredictNeedsSuccessfulTrain ==
    last.op = "predict" =>
        /\ last.kind = "value" => last.e \in trainedOK
        /\ (last.e \notin trainedOK /\ ModesMatch(engines[last.e], last.X))
              => last.kind = "ModelError"

\* C2: the outcome of predict follows a fixed precedence: ValueError when the calendar
\* modes of X differ from the engine's; otherwise ModelError when no train() has
\* succeeded; otherwise InsufficientData when a feature slot is NaN; a value is returned
\* only when none of these applies.
C2_PredictPrecedence ==
    last.op = "predict" =>
        LET self    == engines[last.e]
            modesOK == ModesMatch(self, last.X)
            trained == last.e \in trainedOK
            nanX    == FeaturesHaveNaN(self, last.targetdate, last.X)
        IN  /\ ~modesOK => last.kind = "ValueError"
            /\ (modesOK /\ ~trained) => last.kind = "ModelError"
            /\ (modesOK /\ trained /\ nanX) => last.kind = "InsufficientData"
            /\ last.kind = "value" => (modesOK /\ trained /\ ~nanX)

\* C5: a train() call that leaves some partition without any sample fails with
\* InsufficientData naming such a partition, and with no other kind of error.
C5_EmptyPartitionInsufficientData ==
    (last.op = "train" /\ \E i \in 1..Len(last.counts) : last.counts[i] = 0) =>
        /\ last.kind = "InsufficientData"
        /\ last.partition \in {i \in 1..Len(last.counts) : last.counts[i] = 0}

(***************************************************************************)
(* Properties of cross_validate                                            *)
(***************************************************************************)
GroupSizes(self) == {Len(cv_groups(self)[g]) : g \in 1..Len(cv_groups(self))}

LeastGroup(self) == CHOOSE m \in GroupSizes(self) : \A x \in GroupSizes(self) : m <= x

\* C6: cross_validate('auto') resolves the fold count to min(10, least group size), the
\* largest k <= 10 that every group can supply; when that is 1 the call fails with
\* InsufficientData and runs no fold.
C6_AutoFoldCount ==
    (last.op = "cross_validate" /\ last.k_fold.kind = "auto") =>
        LET least == LeastGroup(engines[last.e])
            k     == IF least < 10 THEN least ELSE 10
        IN  IF k = 1 THEN last.kind = "InsufficientData" /\ folds = <<>>
            ELSE last.k = k

\* C7: cross_validate with an explicit integer fold count raises ValueError when the
\* count is below 2 (1, 0 or negative) and InsufficientData when the count is 2 or more
\* and some group has fewer samples than the count; in both cases no fold engine is
\* built or trained.
C7_ExplicitFoldCount ==
    (last.op = "cross_validate" /\ last.k_fold.kind = "int") =>
        LET n     == last.k_fold.n
            small == \E x \in GroupSizes(engines[last.e]) : x < n
        IN  /\ n < 2 => (last.kind = "ValueError" /\ folds = <<>>)
            /\ (n >= 2 /\ small) => (last.kind = "InsufficientData" /\ folds = <<>>)

C7_Witness ==
    /\ last.op = "cross_validate"
    /\ last.k_fold = [kind |-> "int", n |-> 0]
    /\ last.kind = "ValueError"
    /\ folds = <<>>

\* C7 as stated: InsufficientData whenever the explicit count is below 2 or some group
\* has fewer samples than the count, and no fold engine is built
C7_AsStated ==
    (last.op = "cross_validate" /\ last.k_fold.kind = "int") =>
        LET n     == last.k_fold.n
            small == \E x \in GroupSizes(engines[last.e]) : x < n
        IN  (n < 2 \/ small) => (last.kind = "InsufficientData" /\ folds = <<>>)

\* C8: cross_validate does not depend on the engine having been trained: on an engine on
\* which no train() has succeeded it never reports ModelError, and with an explicit fold
\* count of 2 or more that every group can supply it builds and trains the fold engines,
\* one per fold, and completes unless the train() of a fold engine raises, which ends the
\* call with that exception.
C8_CrossValidateWithoutTrain ==
    (last.op = "cross_validate" /\ last.e \notin trainedOK) =>
        /\ last.kind # "ModelError"
        /\ (/\ last.k_fold.kind = "int"
            /\ last.k_fold.n >= 2
            /\ \A x \in GroupSizes(engines[last.e]) : x >= last.k_fold.n) =>
              /\ Len(folds) >= 1
              /\ \A f \in 1..Len(folds) : folds[f].fc.trainingdates # None
              /\ \A f \in 1..(Len(folds) - 1) : folds[f].kind = "ok"
              /\ last.kind = folds[Len(folds)].kind
              /\ last.kind \in {"ok", "ValueError"}
              /\ last.kind = "ok" => Len(folds) = last.k_fold.n

C8_Witness ==
    /\ last.op = "cross_validate"
    /\ last.e \notin trainedOK
    /\ falsy(engines[last.e].trainingdates)
    /\ last.kind = "ok"
    /\ Len(folds) = 2
    /\ last.predicted # <<>>

\* C8 as stated: on an engine on which no train() has succeeded cross_validate reports
\* ModelError and builds no fold engine
C8_AsStated ==
    (last.op = "cross_validate" /\ last.e \notin trainedOK) =>
        (last.kind = "ModelError" /\ folds = <<>>)

\* C9: every fold engine cross_validate builds has the configuration of its parent: the
\* same effective lag, hence the same feature dates for every target date of the series,
\* and the same laglength, multimodel flag, decompose flag and feature series.
C9_FoldConfiguration ==
    last.op = "cross_validate" =>
        \A f \in 1..Len(folds) :
            LET fc   == folds[f].fc
                self == engines[last.e]
            IN  /\ fc.lag = self.lag
                /\ fc.laglength = self.laglength
                /\ fc.multimodel = self.multimodel
                /\ fc.decompose = self.decompose
                /\ fc.X = self.X
                /\ \A n \in 1..Len(self.y.ts) :
                      aggregate_featuredates(fc, self.y.ts[n][1])
                          = aggregate_featuredates(self, self.y.ts[n][1])

(***************************************************************************)
(* Properties of the estimator objects                                     *)
(***************************************************************************)
Slots(e) == {engines[e].model[i] : i \in 1..engines[e].maxindex}

PartitionOf(self, date) ==
    IF self.multimodel THEN convert_to_annual_index(self.y.mode, date) ELSE 1

\* the training dates of partition p, in order
DatesOf(self, p) == SelectSeq(self.trainingdates, LAMBDA d : PartitionOf(self, d) = p)

\* the target value a sample of date d is fitted with
FittedTarget(self, d) ==
    Lookup(self.y, d)
        - (IF train_decomposes(self) THEN decomp_seasonal(convert_to_annual_index(self.y.mode, d))
           ELSE 0)

\* C11: on a trained engine predict takes the feature scaler, the estimator and the target
\* scaler from one partition p, that of the target date's annual index when multimodel and
\* the single partition otherwise, each fitted on the samples of p alone; the seasonal
\* offset it adds is the one of the target date's annual index in the target calendar,
\* of which the engine keeps maxindex whatever multimodel is, and it is 0 when decompose
\* is disabled or the calendar has a single period.
C11_PredictPartition ==
    (last.op = "predict" /\ last.kind = "value" /\ last.e \in trainedOK) =>
        LET self == engines[last.e]
            p    == PartitionOf(self, last.targetdate)
            a    == convert_to_annual_index(self.y.mode, last.targetdate)
            v    == last.value[1]
            rows == DatesOf(self, p)
        IN  /\ v.X_scaler = self.X_scaler[p].data
            /\ v.model = heap[self.model[p]].data
            /\ v.y_scaler = self.y_scaler[p].data
            /\ v.y_scaler = [n \in 1..Len(rows) |-> FittedTarget(self, rows[n])]
            /\ v.model = <<v.X_scaler, v.y_scaler>>
            /\ Len(v.X_scaler) = Len(rows)
            /\ Len(self.seasonal) = maxindex(self.y.mode)
            /\ v.seasonal = self.seasonal[a]
            /\ v.seasonal = (IF train_decomposes(self) THEN decomp_seasonal(a) ELSE 0)

C11_Witness ==
    /\ last.op = "predict"
    /\ last.kind = "value"
    /\ last.e \in trainedOK
    /\ ~engines[last.e].multimodel
    /\ engines[last.e].decompose
    /\ last.targetdate = Date(1, 6, 1)
    /\ last.value[1].seasonal = decomp_seasonal(6)
    /\ last.value[1].seasonal # engines[last.e].seasonal[1]

\* C11 as stated: the partition that supplies the scalers and the estimator also supplies
\* the seasonal offset, a non-multimodel engine has exactly one offset, and the offset is
\* 0 when decompose is disabled
C11_AsStated ==
    (last.op = "predict" /\ last.kind = "value" /\ last.e \in trainedOK) =>
        LET self == engines[last.e]
            p    == PartitionOf(self, last.targetdate)
            v    == last.value[1]
        IN  /\ v.X_scaler = self.X_scaler[p].data
            /\ v.model = heap[self.model[p]].data
            /\ v.y_scaler = self.y_scaler[p].data
            /\ v.seasonal = self.seasonal[p]
            /\ ~self.multimodel => Len(self.seasonal) = 1
            /\ ~self.decompose => v.seasonal = 0

\* the features of target date d as the engine's own feature series give them
FeaturesAt(self, d) == aggregate_features(self, aggregate_featuredates(self, d), self.X)

\* a target date whose target value and whose every feature slot is an observation
Usable(self, p) == p[2] # NaN /\ ~isnan_any(FeaturesAt(self, p[1]))

UsableDates(self) ==
    LET rows == SelectSeq(self.y.ts, LAMBDA p : Usable(self, p))
    IN  [n \in 1..Len(rows) |-> rows[n][1]]

C12_Samples ==
    last.op = "train" =>
        LET self == engines[last.e]
            done == {p \in 1..self.maxindex : last.partition = 0 \/ p < last.partition}
        IN  /\ self.trainingdates = UsableDates(self)
            /\ Len(last.counts) = self.maxindex
            /\ \A p \in 1..self.maxindex : last.counts[p] = Len(DatesOf(self, p))
            /\ SumSeq(last.counts) = Len(self.trainingdates)
            /\ \A p \in done :
                  LET rows == DatesOf(self, p)
                  IN  /\ self.y_scaler[p].data = [n \in 1..Len(rows) |-> FittedTarget(self, rows[n])]
                      /\ self.X_scaler[p].data = [n \in 1..Len(rows) |-> FeaturesAt(self, rows[n])]
                      /\ heap[self.model[p]].data = <<self.X_scaler[p].data, self.y_scaler[p].data>>
                      /\ \A n \in 1..Len(rows) :
                            Lookup(self.y, rows[n]) # NaN /\ ~isnan_any(self.X_scaler[p].data[n])

C12_Repeat ==
    \A e \in 1..Len(engines) :
        (last'.op = "train" /\ last'.e = e /\ engines[e].trainingdates # None) =>
            /\ engines'[e].trainingdates = engines[e].trainingdates
            /\ engines'[e].X_scaler = engines[e].X_scaler
            /\ engines'[e].y_scaler = engines[e].y_scaler
            /\ heap' = heap

\* C12: after a train() call trainingdates is, in target-series order, exactly the target
\* dates whose target value is not NaN and whose feature vector has no NaN slot; each of
\* them is one sample of one bucket, that of its annual index when multimodel and bucket
\* 1 otherwise, so the bucket sizes sum to len(trainingdates) and what a partition is
\* fitted on holds no NaN; a repeated train() yields the same trainingdates and buckets.
C12_TrainingSamples == []C12_Samples /\ [][C12_Repeat]_vars

C12_Witness ==
    /\ last.op = "train"
    /\ last.kind = "ok"
    /\ engines[last.e].y = Q13nan
    /\ engines[last.e].X = <<Phole>>
    /\ ~engines[last.e].multimodel
    /\ \E n \in 1..Len(Q13nan.ts) :
          /\ Q13nan.ts[n][2] # NaN
          /\ isnan_any(FeaturesAt(engines[last.e], Q13nan.ts[n][1]))
    /\ Len(engines[last.e].trainingdates) < Len(Q13nan.ts) - 1
    /\ Len(engines[last.e].trainingdates) > 0

(***************************************************************************)
(* Properties of the folds                                                 *)
(***************************************************************************)
DatesIn(rows) == {rows[n][1] : n \in 1..Len(rows)}

\* the dates fold f holds out, and the dates of the rows its engine is trained on
HeldOut(f) == {folds[f].test[n] : n \in 1..Len(folds[f].test)}

TrainedOn(f) == DatesIn(folds[f].fc.y.ts)

Outcomes(f) == {folds[f].failed[n] : n \in 1..Len(folds[f].failed)}

\* the held-out dates of fold f whose prediction returned a value
Predicted(f) == {folds[f].test[n] : n \in {m \in 1..Len(folds[f].test) : folds[f].failed[m] = "value"}}

\* C14: the only failure cross_validate recovers from is InsufficientData of the
\* prediction of one held-out date: that date is skipped and every other held-out date of
\* every fold is still predicted; any other failure, of the train() of a fold engine or of
\* the estimator, ends cross_validate with that failure.
C14_OnlyInsufficientDataSkipped ==
    last.op = "cross_validate" =>
        /\ (folds # <<>> /\ folds[Len(folds)].kind # "ok") => last.kind = folds[Len(folds)].kind
        /\ last.kind = "ok" =>
              /\ \A f \in 1..Len(folds) : Outcomes(f) \subseteq {"value", "InsufficientData"}
              /\ DatesIn(last.predicted) = UNION {Predicted(f) : f \in 1..Len(folds)}

=============================================================================
